---- MODULE Spec2Model ----
(***************************************************************************)
(* Model of the initiatives platform of src/app.py: the three SQLite       *)
(* tables (initiatives, rag_knowledge, document_analysis), the context     *)
(* assembly get_rag_context, the external call call_deepseek_api, and the  *)
(* page handlers that submit, list and update initiatives.                 *)
(*                                                                         *)
(* Text is modelled by TLA+ strings, character for character.  The Arabic  *)
(* literals of the source are written with one ASCII letter per Arabic     *)
(* letter, so every length and every offset is the one of the source.      *)
(***************************************************************************)
EXTENDS Integers, Sequences, FiniteSets, TLC

(***************************************************************************)
(* Bounds of the model.                                                    *)
(***************************************************************************)
MaxCalls   == 2     \* requests.post calls issued in one behaviour
MaxUpdates == 2     \* calls of update_initiative_status in one behaviour
MaxClock   == 1     \* last value of the store's CURRENT_TIMESTAMP (seconds)
MaxEntries == 2     \* rows of a rag_knowledge table drawn as an input
MaxRows    == 2     \* rows of an initiatives table drawn as an input
MaxReviewed == 1    \* initiatives submitted in a behaviour with status updates
LongLen    == 9500  \* length of the long description drawn as an input

(***************************************************************************)
(* Strings.                                                                *)
(***************************************************************************)
RECURSIVE Rep(_, _)
Rep(s, n) == IF n = 0 THEN ""
             ELSE IF n % 2 = 0 THEN Rep(s \o s, n \div 2)
             ELSE s \o Rep(s, n - 1)

StartsWith(s, p) == Len(s) >= Len(p) /\ SubSeq(s, 1, Len(p)) = p

Contains(s, p) == \E i \in 1..(Len(s) - Len(p) + 1) : SubSeq(s, i, i + Len(p) - 1) = p

\* Python's str.join: sep.join(parts)
RECURSIVE Join(_, _)
Join(parts, sep) == IF parts = <<>> THEN ""
                    ELSE IF Len(parts) = 1 THEN parts[1]
                    ELSE parts[1] \o sep \o Join(Tail(parts), sep)

\* Python's str() of a float that holds a whole number below 1e16: "1000.0"
FormatFloat(b) == ToString(b) \o ".0"

(***************************************************************************)
(* Program constants.                                                      *)
(***************************************************************************)
ContextLimit == 10000

ALL == "alkl"

Departments == {"tqnyp almElwmat", "almward albcryp", "almalyp", "alxdmat", "altTwyr", "AxrY"}

Statuses == {"pending", "approved", "rejected", "in_progress", "implemented"}

DefaultStatus == "pending"

\* SQL NULL / Python None
NULL == "<NULL>"

(***************************************************************************)
(* get_rag_context, on the rows of rag_knowledge in rowid order.           *)
(***************************************************************************)
Contents(rows) == [i \in 1..Len(rows) |-> rows[i].content]

\* a context assembly that cuts one character early, from the limit on
get_rag_context_CutsEarly(rows) ==
    IF rows = <<>> THEN ""
    ELSE LET context == Join(Contents(rows), "\n\n")
         IN  IF Len(context) >= ContextLimit THEN SubSeq(context, 1, ContextLimit - 1)
             ELSE context

\* a context assembly that misses the newest row
get_rag_context_SkipsNewest(rows) ==
    IF Len(rows) <= 1 THEN ""
    ELSE LET context == Join(Contents(SubSeq(rows, 1, Len(rows) - 1)), "\n\n")
         IN  IF Len(context) > ContextLimit THEN SubSeq(context, 1, ContextLimit)
             ELSE context

get_rag_context(rows) ==
    IF rows = <<>> THEN ""
    ELSE LET context == Join(Contents(rows), "\n\n")
         IN  IF Len(context) > ContextLimit THEN SubSeq(context, 1, ContextLimit)
             ELSE context

(***************************************************************************)
(* The content of the rag_knowledge row written by add_to_rag_knowledge.   *)
(***************************************************************************)
\* a rendering that leaves the budget line out
RagContent_NoBudget(d) ==
    "\n    Enwan almbadrp: " \o d.title \o
    "\n    alqsm: " \o d.department \o
    "\n    alwSf: " \o d.description \o
    "\n    alAhdaf: " \o d.goals \o
    "\n    almtTlbat: " \o d.requirements \o "\n    "

RagContent(d) ==
    "\n    Enwan almbadrp: " \o d.title \o
    "\n    alqsm: " \o d.department \o
    "\n    alwSf: " \o d.description \o
    "\n    alAhdaf: " \o d.goals \o
    "\n    almtTlbat: " \o d.requirements \o
    "\n    almyzanyp: " \o FormatFloat(d.budget) \o " ryal\n    "

(***************************************************************************)
(* add_seed_data: three rows, written only into an empty rag_knowledge.    *)
(***************************************************************************)
seed_data == <<
  [content |-> "Enwan almbadrp: tTbyq nZam altwqyE alIlktrwny\nalqsm: tqnyp almElwmat\nalwSf: IncaC nZam lltwqyE alIlktrwny llmEamlat aldaxlyp ltqlyl asthlak alwrq wtsryE alEmlyat\nalAhdaf: tqlyl albSmp alkrbwnyp, tsryE Injaz almEamlat, twfyr altkalyf\nalmtTlbat: brmjyat tcfyr, Ajhzp xwadm, tdryb almwZfyn\nalmyzanyp: 150000 ryal",
   category |-> "tqnyp almElwmat"],
  [content |-> "Enwan almbadrp: brnamj tHfyz almwZfyn\nalqsm: almward albcryp\nalwSf: brnamj caml ltHfyz almwZfyn mn xlal nZam nqaT wmkafOt llInjazat almtmyzp\nalAhdaf: zyadp alIntajyp, tEzyz alantmaC llmWssp, tqlyl mEdl dwran almwZfyn\nalmtTlbat: nZam Ilktrwny lttbE alnqaT, myzanyp llmkafOt, fryq Idarp albrnamj\nalmyzanyp: 200000 ryal",
   category |-> "almward albcryp"],
  [content |-> "Enwan almbadrp: trcyd asthlak alTaqp\nalqsm: alxdmat\nalwSf: trkyb AnZmp Vkyp ltrcyd asthlak alkhrbaC walmaC fy mbany almWssp\nalAhdaf: xfD fwatyr alTaqp bnsbp 30%, tqlyl albSmp albyQyp, alaltzam bmEayyr alastdamp\nalmtTlbat: Ajhzp astcEar Vkyp, AnZmp tHkm mrkzyp, Hmlp twEyp llmwZfyn\nalmyzanyp: 350000 ryal",
   category |-> "alxdmat"] >>

RagRow(content, category, ts) == [content |-> content, category |-> category, created_at |-> ts]

add_seed_data(rows, ts) ==
    IF Len(rows) = 0
    THEN [i \in 1..Len(seed_data) |-> RagRow(seed_data[i].content, seed_data[i].category, ts)]
    ELSE rows

(***************************************************************************)
(* call_deepseek_api, on the outcome of requests.post.  An outcome is      *)
(* either an exception raised by the transport or an HTTP response with a  *)
(* status code, a body text and the value response.json() parses from it   *)
(* (json_ok = FALSE: the body is not JSON and response.json() raises).     *)
(***************************************************************************)
Raised(detail) == [kind |-> "raised", detail |-> detail]

Returned(text) == [kind |-> "returned", value |-> text]

\* response.json()["choices"][0]["message"]["content"], with Python's
\* exceptions for a missing key or an empty list
ExtractContent(r) ==
    IF ~r.json_ok THEN Raised("Expecting value: line 1 column 1 (char 0)")
    ELSE IF "choices" \notin DOMAIN r.json THEN Raised("'choices'")
    ELSE IF Len(r.json.choices) = 0 THEN Raised("list index out of range")
    ELSE IF "message" \notin DOMAIN r.json.choices[1] THEN Raised("'message'")
    ELSE IF "content" \notin DOMAIN r.json.choices[1].message THEN Raised("'content'")
    ELSE Returned(r.json.choices[1].message.content)

\* a call that guards the transport and the status code, not the parsing
call_deepseek_api_Unguarded(outcome) ==
    IF outcome.kind = "exception"
    THEN Returned("Error calling API: " \o outcome.detail)
    ELSE IF outcome.status_code = 200
         THEN ExtractContent(outcome)
         ELSE Returned("Error: " \o ToString(outcome.status_code) \o " - " \o outcome.text)

call_deepseek_api(outcome) ==
    IF outcome.kind = "exception"
    THEN Returned("Error calling API: " \o outcome.detail)
    ELSE IF outcome.status_code = 200
         THEN LET c == ExtractContent(outcome)
              IN  IF c.kind = "raised"
                  THEN Returned("Error calling API: " \o c.detail)
                  ELSE c
         ELSE Returned("Error: " \o ToString(outcome.status_code) \o " - " \o outcome.text)

(***************************************************************************)
(* State.                                                                  *)
(***************************************************************************)
VARIABLES
    initiatives,        \* table initiatives, rows in rowid order
    rag_knowledge,      \* table rag_knowledge, rows in rowid order
    document_analysis,  \* table document_analysis, rows in rowid order
    now,                \* the store's CURRENT_TIMESTAMP, in seconds
    api_calls,          \* requests.post calls issued so far
    updates,            \* update_initiative_status calls made so far
    pc,                 \* per session: where its script run stands
    initiative_data,    \* per session: the dict built at lines 313-322
    rag_context,        \* per session: the blob read by get_rag_context
    initiative_id,      \* per session: the lastrowid save_initiative returned
    message,            \* per session: what the last run reported
    shown,              \* per session: the rows its review page last read
    call,               \* the last query or function call and its arguments
    ret                 \* what that call returned

vars == <<initiatives, rag_knowledge, document_analysis, now, api_calls, updates,
          pc, initiative_data, rag_context, initiative_id, message, shown, call, ret>>

tables == <<initiatives, rag_knowledge, document_analysis>>

locals == <<pc, initiative_data, rag_context, initiative_id, message, shown>>

Sessions == {"s1", "s2"}

NoData == [employee_id |-> "", employee_name |-> "", department |-> "", title |-> "",
           description |-> "", goals |-> "", requirements |-> "", budget |-> 0]

NoMessage == [kind |-> "none", id |-> 0]

NoCall == [fn |-> "none"]

(***************************************************************************)
(* Inputs.                                                                 *)
(***************************************************************************)
IT == "tqnyp almElwmat"

HR == "almward albcryp"

LongText == Rep("d", LongLen)

BaseForm == [employee_id |-> "E1", employee_name |-> "Ali", department |-> IT,
             title |-> "E-sign", description |-> "paperless signing",
             goals |-> "save paper", requirements |-> "servers", budget |-> 1000]

RequiredFields == {"employee_id", "employee_name", "title", "description", "goals"}

\* the base form with the fields of F left empty
Without(F) == [k \in DOMAIN BaseForm |-> IF k \in F THEN "" ELSE BaseForm[k]]

OtherForm == [employee_id |-> "E2", employee_name |-> "Sara", department |-> HR,
              title |-> "Shuttle", description |-> "staff bus",
              goals |-> "cut commute", requirements |-> "", budget |-> 60000]

LongForm == [BaseForm EXCEPT !.description = LongText]

InvalidForms == {Without(F) : F \in (SUBSET RequiredFields) \ {{}}}

OkBody(text) == [choices |-> << [message |-> [role |-> "assistant", content |-> text]] >>]

Http(code, text, ok, json) ==
    [kind |-> "http", status_code |-> code, text |-> text, json_ok |-> ok, json |-> json]

OkOutcome == Http(200, "{...}", TRUE, OkBody("Good idea"))

FailedOutcome == [kind |-> "exception", detail |-> "Connection refused"]

(***************************************************************************)
(* Initial state: init_db() has created the three tables, empty.           *)
(***************************************************************************)
Init ==
    /\ initiatives = <<>>
    /\ rag_knowledge = <<>>
    /\ document_analysis = <<>>
    /\ now = 0
    /\ api_calls = 0
    /\ updates = 0
    /\ pc = [s \in Sessions |-> "new"]
    /\ initiative_data = [s \in Sessions |-> NoData]
    /\ rag_context = [s \in Sessions |-> ""]
    /\ initiative_id = [s \in Sessions |-> 0]
    /\ message = [s \in Sessions |-> NoMessage]
    /\ shown = [s \in Sessions |-> <<>>]
    /\ call = NoCall
    /\ ret = NULL

(***************************************************************************)
(* The clock of the store advances.                                        *)
(***************************************************************************)
Tick ==
    /\ now < MaxClock
    /\ now' = now + 1
    /\ UNCHANGED <<tables, api_calls, updates, locals, call, ret>>

(***************************************************************************)
(* main() with no button pressed: the first run of a session draws the     *)
(* page; add_seed_data runs at the head of every run.                      *)
(***************************************************************************)
Render(s) ==
    /\ pc[s] = "new"
    /\ rag_knowledge' = add_seed_data(rag_knowledge, now)
    /\ pc' = [pc EXCEPT ![s] = "idle"]
    /\ UNCHANGED <<initiatives, document_analysis, now, api_calls, updates,
                   initiative_data, rag_context, initiative_id, message, shown, call, ret>>

(***************************************************************************)
(* submit_initiative_page, from the press of the submit button.            *)
(***************************************************************************)
\* a validation that forgets the goals
Invalid_SkipsGoals(d) == d.employee_id = "" \/ d.employee_name = "" \/ d.title = ""
                         \/ d.description = ""

\* line 307: the form is refused when a required field is empty
Invalid(d) == d.employee_id = "" \/ d.employee_name = "" \/ d.title = ""
              \/ d.description = "" \/ d.goals = ""

\* lines 306-308: validation fails, st.error, nothing else
SubmitInvalid(s, d) ==
    /\ pc[s] = "idle"
    /\ Invalid(d)
    /\ rag_knowledge' = add_seed_data(rag_knowledge, now)
    /\ message' = [message EXCEPT ![s] = [kind |-> "error", id |-> 0]]
    /\ UNCHANGED <<initiatives, document_analysis, now, api_calls, updates,
                   pc, initiative_data, rag_context, initiative_id, shown, call, ret>>

\* a handler that appends the context entry before it assembles the context
SubmitValid_AppendsFirst(s, d) ==
    /\ pc[s] = "idle"
    /\ ~Invalid(d)
    /\ api_calls < MaxCalls
    /\ LET rows == Append(add_seed_data(rag_knowledge, now),
                          RagRow(RagContent(d), d.department, now))
       IN  /\ rag_knowledge' = rows
           /\ rag_context' = [rag_context EXCEPT ![s] = get_rag_context(rows)]
    /\ initiative_data' = [initiative_data EXCEPT ![s] = d]
    /\ api_calls' = api_calls + 1
    /\ pc' = [pc EXCEPT ![s] = "awaiting"]
    /\ message' = [message EXCEPT ![s] = NoMessage]
    /\ UNCHANGED <<initiatives, document_analysis, now, updates, initiative_id, shown, call, ret>>

\* lines 309-325 and 108-136, 88: the dict is built, get_rag_context reads
\* the table, the prompt is posted
SubmitValid(s, d) ==
    /\ pc[s] = "idle"
    /\ ~Invalid(d)
    /\ api_calls < MaxCalls
    /\ LET rows == add_seed_data(rag_knowledge, now)
       IN  /\ rag_knowledge' = rows
           /\ rag_context' = [rag_context EXCEPT ![s] = get_rag_context(rows)]
    /\ initiative_data' = [initiative_data EXCEPT ![s] = d]
    /\ api_calls' = api_calls + 1
    /\ pc' = [pc EXCEPT ![s] = "awaiting"]
    /\ message' = [message EXCEPT ![s] = NoMessage]
    /\ UNCHANGED <<initiatives, document_analysis, now, updates, initiative_id, shown, call, ret>>

\* the row save_initiative inserts (lines 159-176); status, admin_feedback
\* and the two timestamps take the column defaults of lines 35-39
InitiativeRow(id, d, ai_feedback, ts) ==
    [id |-> id,
     employee_id |-> d.employee_id, employee_name |-> d.employee_name,
     department |-> d.department, title |-> d.title,
     description |-> d.description, goals |-> d.goals,
     requirements |-> d.requirements, budget |-> d.budget,
     status |-> DefaultStatus, ai_feedback |-> ai_feedback, admin_feedback |-> NULL,
     created_at |-> ts, updated_at |-> ts]

\* AUTOINCREMENT: one more than the largest rowid ever used
NextId(rows) == Len(rows) + 1

\* a handler that gives the submission up when the call reports an error
SaveInitiative_AbortsOnError(s, o) ==
    /\ pc[s] = "awaiting"
    /\ LET ai_feedback == call_deepseek_api(o).value
       IN  IF StartsWith(ai_feedback, "Error")
           THEN /\ pc' = [pc EXCEPT ![s] = "idle"]
                /\ message' = [message EXCEPT ![s] = [kind |-> "error", id |-> 0]]
                /\ initiative_data' = [initiative_data EXCEPT ![s] = NoData]
                /\ rag_context' = [rag_context EXCEPT ![s] = ""]
                /\ UNCHANGED <<initiatives, initiative_id>>
           ELSE /\ initiatives' = Append(initiatives,
                       InitiativeRow(NextId(initiatives), initiative_data[s], ai_feedback, now))
                /\ initiative_id' = [initiative_id EXCEPT ![s] = NextId(initiatives)]
                /\ pc' = [pc EXCEPT ![s] = "saved"]
                /\ UNCHANGED <<initiative_data, rag_context, message>>
    /\ UNCHANGED <<rag_knowledge, document_analysis, now, api_calls, updates, shown, call, ret>>

\* lines 88-94 and 328: the call returns, save_initiative commits the row
SaveInitiative(s, o) ==
    /\ pc[s] = "awaiting"
    /\ LET ai_feedback == call_deepseek_api(o).value
       IN  initiatives' = Append(initiatives,
               InitiativeRow(NextId(initiatives), initiative_data[s], ai_feedback, now))
    /\ initiative_id' = [initiative_id EXCEPT ![s] = NextId(initiatives)]
    /\ pc' = [pc EXCEPT ![s] = "saved"]
    /\ UNCHANGED <<rag_knowledge, document_analysis, now, api_calls, updates,
                   initiative_data, rag_context, message, shown, call, ret>>

\* a handler that first appends the entries of the records that have none
AddToRagKnowledge_Repairs(s) ==
    /\ pc[s] = "saved"
    /\ LET have == Len(rag_knowledge) - Len(seed_data)
           lack == [i \in 1..(Len(initiatives) - have) |->
                       RagRow(RagContent(initiatives[have + i]),
                              initiatives[have + i].department, now)]
       IN  rag_knowledge' = rag_knowledge \o lack
    /\ message' = [message EXCEPT ![s] = [kind |-> "success", id |-> initiative_id[s]]]
    /\ pc' = [pc EXCEPT ![s] = "idle"]
    /\ initiative_data' = [initiative_data EXCEPT ![s] = NoData]
    /\ rag_context' = [rag_context EXCEPT ![s] = ""]
    /\ initiative_id' = [initiative_id EXCEPT ![s] = 0]
    /\ UNCHANGED <<initiatives, document_analysis, now, api_calls, updates, shown, call, ret>>

\* a corpus of fixed size: the oldest entry leaves when one is appended
AddToRagKnowledge_DropsOldest(s) ==
    /\ pc[s] = "saved"
    /\ rag_knowledge' = Append(Tail(rag_knowledge),
           RagRow(RagContent(initiative_data[s]), initiative_data[s].department, now))
    /\ message' = [message EXCEPT ![s] = [kind |-> "success", id |-> initiative_id[s]]]
    /\ pc' = [pc EXCEPT ![s] = "idle"]
    /\ initiative_data' = [initiative_data EXCEPT ![s] = NoData]
    /\ rag_context' = [rag_context EXCEPT ![s] = ""]
    /\ initiative_id' = [initiative_id EXCEPT ![s] = 0]
    /\ UNCHANGED <<initiatives, document_analysis, now, api_calls, updates, shown, call, ret>>

\* lines 331-333: add_to_rag_knowledge commits the row, st.success
AddToRagKnowledge(s) ==
    /\ pc[s] = "saved"
    /\ rag_knowledge' = Append(rag_knowledge,
           RagRow(RagContent(initiative_data[s]), initiative_data[s].department, now))
    /\ message' = [message EXCEPT ![s] = [kind |-> "success", id |-> initiative_id[s]]]
    /\ pc' = [pc EXCEPT ![s] = "idle"]
    /\ initiative_data' = [initiative_data EXCEPT ![s] = NoData]
    /\ rag_context' = [rag_context EXCEPT ![s] = ""]
    /\ initiative_id' = [initiative_id EXCEPT ![s] = 0]
    /\ UNCHANGED <<initiatives, document_analysis, now, api_calls, updates, shown, call, ret>>

\* the script run of a submission stops between two of its commits
\* (the server process dies, or the run is aborted)
Crash(s) ==
    /\ pc[s] \in {"awaiting", "saved"}
    /\ pc' = [pc EXCEPT ![s] = "idle"]
    /\ message' = [message EXCEPT ![s] = NoMessage]
    /\ initiative_data' = [initiative_data EXCEPT ![s] = NoData]
    /\ rag_context' = [rag_context EXCEPT ![s] = ""]
    /\ initiative_id' = [initiative_id EXCEPT ![s] = 0]
    /\ UNCHANGED <<tables, now, api_calls, updates, shown, call, ret>>

(***************************************************************************)
(* update_initiative_status (lines 209-215): one UPDATE ... WHERE id = ?.  *)
(***************************************************************************)
\* an update that keeps the earlier reviewer feedback in front of the new one
update_initiative_status_KeepsHistory(rows, id, status, admin_feedback, ts) ==
    [i \in 1..Len(rows) |->
        IF rows[i].id = id
        THEN [rows[i] EXCEPT !.status = status,
                             !.admin_feedback = IF @ = NULL THEN admin_feedback
                                                ELSE @ \o "\n" \o admin_feedback,
                             !.updated_at = ts]
        ELSE rows[i]]

\* an UPDATE without its WHERE clause
update_initiative_status_NoWhere(rows, id, status, admin_feedback, ts) ==
    [i \in 1..Len(rows) |->
        [rows[i] EXCEPT !.status = status, !.admin_feedback = admin_feedback,
                        !.updated_at = ts]]

\* an update that treats implemented as a final status
update_initiative_status_FinalStatus(rows, id, status, admin_feedback, ts) ==
    [i \in 1..Len(rows) |->
        IF rows[i].id = id /\ rows[i].status # "implemented"
        THEN [rows[i] EXCEPT !.status = status, !.admin_feedback = admin_feedback,
                             !.updated_at = ts]
        ELSE rows[i]]

update_initiative_status(rows, id, status, admin_feedback, ts) ==
    [i \in 1..Len(rows) |->
        IF rows[i].id = id
        THEN [rows[i] EXCEPT !.status = status, !.admin_feedback = admin_feedback,
                             !.updated_at = ts]
        ELSE rows[i]]

\* lines 627-630: the manager's update button; the result is not looked at
\* and the page reports success whatever the UPDATE matched
UpdateStatus(s, id, status, admin_feedback) ==
    /\ pc[s] = "idle"
    /\ updates < MaxUpdates
    /\ updates' = updates + 1
    /\ rag_knowledge' = add_seed_data(rag_knowledge, now)
    /\ initiatives' = update_initiative_status(initiatives, id, status, admin_feedback, now)
    /\ message' = [message EXCEPT ![s] = [kind |-> "updated", id |-> 0]]
    /\ UNCHANGED <<document_analysis, now, api_calls, pc, initiative_data,
                   rag_context, initiative_id, shown, call, ret>>

(***************************************************************************)
(* The two listing queries.                                                *)
(***************************************************************************)
\* ORDER BY created_at DESC: every order of the rows in which created_at
\* never increases; SQL leaves the order of rows with equal keys open
OrderByCreatedAtDesc(rows) ==
    LET n == Len(rows)
        Orders == {f \in [1..n -> 1..n] :
                      /\ \A i, j \in 1..n : i # j => f[i] # f[j]
                      /\ \A i \in 1..(n - 1) : rows[f[i]].created_at >= rows[f[i + 1]].created_at}
    IN  {[i \in 1..n |-> rows[f[i]]] : f \in Orders}

\* a WHERE clause is a list of comparisons joined by AND
Holds(row, clause) ==
    IF clause.op = "=" THEN row[clause.column] = clause.value
    ELSE row[clause.column] <= clause.value

Where(rows, clauses) ==
    LET Match(row) == \A k \in 1..Len(clauses) : Holds(row, clauses[k])
    IN  SelectSeq(rows, Match)

\* lines 350-354
EmployeeQuery(employee_id) ==
    << [column |-> "employee_id", op |-> "=", value |-> employee_id] >>

\* a query that forgets the department filter
FilterQuery_NoDepartment(status_filter, department_filter, budget_filter) ==
    (IF status_filter # ALL
     THEN << [column |-> "status", op |-> "=", value |-> status_filter] >> ELSE <<>>)
    \o
    << [column |-> "budget", op |-> "<=", value |-> budget_filter] >>

\* lines 567-581
FilterQuery(status_filter, department_filter, budget_filter) ==
    (IF status_filter # ALL
     THEN << [column |-> "status", op |-> "=", value |-> status_filter] >> ELSE <<>>)
    \o
    (IF department_filter # ALL
     THEN << [column |-> "department", op |-> "=", value |-> department_filter] >> ELSE <<>>)
    \o
    << [column |-> "budget", op |-> "<=", value |-> budget_filter] >>

ListForEmployee(employee_id) ==
    /\ call' = [fn |-> "listForEmployee", employee_id |-> employee_id]
    /\ ret' \in OrderByCreatedAtDesc(Where(initiatives, EmployeeQuery(employee_id)))
    /\ UNCHANGED <<tables, now, api_calls, updates, locals>>

ListFiltered(status_filter, department_filter, budget_filter) ==
    /\ call' = [fn |-> "listFiltered", status_filter |-> status_filter,
                department_filter |-> department_filter, budget_filter |-> budget_filter]
    /\ ret' \in OrderByCreatedAtDesc(
                   Where(initiatives, FilterQuery(status_filter, department_filter, budget_filter)))
    /\ UNCHANGED <<tables, now, api_calls, updates, locals>>

(***************************************************************************)
(* review_initiatives_page (lines 545-661).  A run reads the initiatives   *)
(* through the filters, here left at their defaults, and draws one         *)
(* expander per row read; a button of an expander acts on the row as it    *)
(* was read, and st.experimental_rerun() runs the page again.              *)
(***************************************************************************)
DefaultBudgetFilter == 1000000

ReviewListing(rows) ==
    OrderByCreatedAtDesc(Where(rows, FilterQuery(ALL, ALL, DefaultBudgetFilter)))

\* lines 548-611: a run of the page with no button pressed
ReviewPage(s) ==
    /\ pc[s] = "idle"
    /\ rag_knowledge' = add_seed_data(rag_knowledge, now)
    /\ shown' \in {[shown EXCEPT ![s] = l] : l \in ReviewListing(initiatives)}
    /\ UNCHANGED <<initiatives, document_analysis, now, api_calls, updates, pc,
                   initiative_data, rag_context, initiative_id, message, call, ret>>

\* a button of the expander of the k-th row read: update_initiative_status
\* on the id of that row, st.success, and the rerun
ReviewAction(s, k, status, admin_feedback) ==
    /\ pc[s] = "idle"
    /\ k \in 1..Len(shown[s])
    /\ updates < MaxUpdates
    /\ updates' = updates + 1
    /\ rag_knowledge' = add_seed_data(rag_knowledge, now)
    /\ LET rows == update_initiative_status(initiatives, shown[s][k].id, status,
                                            admin_feedback, now)
       IN  /\ initiatives' = rows
           /\ shown' \in {[shown EXCEPT ![s] = l] : l \in ReviewListing(rows)}
    /\ message' = [message EXCEPT ![s] = [kind |-> "updated", id |-> 0]]
    /\ UNCHANGED <<document_analysis, now, api_calls, pc, initiative_data,
                   rag_context, initiative_id, call, ret>>

\* lines 614-630: the manager picks the new status and types the feedback
ManagerUpdate(s, k, new_status, feedback) ==
    ReviewAction(s, k, new_status, feedback)

\* lines 632-642: human resources type an analysis; the status passed is
\* the status of the row as read
HrReview(s, k, hr_analysis) ==
    /\ k \in 1..Len(shown[s])
    /\ ReviewAction(s, k, shown[s][k].status, hr_analysis)

\* line 658: the feedback the finance action composes
FinanceFeedback(budget_assessment, adjusted_budget) ==
    "tqyym almyzanyp: " \o budget_assessment \o "\nalmyzanyp almEdlp: "
        \o FormatFloat(adjusted_budget) \o " ryal"

\* lines 644-661: finance type an assessment and an adjusted budget; the
\* status passed is the status of the row as read, the budget is not stored
FinanceReview(s, k, budget_assessment, adjusted_budget) ==
    /\ k \in 1..Len(shown[s])
    /\ ReviewAction(s, k, shown[s][k].status,
                    FinanceFeedback(budget_assessment, adjusted_budget))

(***************************************************************************)
(* analyze_documents_page, from the press of the analysis button           *)
(* (lines 503-513): one call, and one row when an employee id was typed.   *)
(***************************************************************************)
AnalysisRow(id, file_name, analysis_type, analysis_result, employee_id, ts) ==
    [id |-> id, file_name |-> file_name, analysis_type |-> analysis_type,
     analysis_result |-> analysis_result, employee_id |-> employee_id, created_at |-> ts]

\* a handler that stores the analysis whether or not an id was typed
AnalyzeDocument_AlwaysSaves(s, employee_id, file_name, analysis_type, o) ==
    /\ pc[s] = "idle"
    /\ api_calls < MaxCalls
    /\ api_calls' = api_calls + 1
    /\ rag_knowledge' = add_seed_data(rag_knowledge, now)
    /\ LET analysis_result == call_deepseek_api(o).value
       IN  document_analysis' =
               Append(document_analysis,
                   AnalysisRow(NextId(document_analysis), file_name, analysis_type,
                               analysis_result, employee_id, now))
    /\ UNCHANGED <<initiatives, now, updates, locals, call, ret>>

AnalyzeDocument(s, employee_id, file_name, analysis_type, o) ==
    /\ pc[s] = "idle"
    /\ api_calls < MaxCalls
    /\ api_calls' = api_calls + 1
    /\ rag_knowledge' = add_seed_data(rag_knowledge, now)
    /\ LET analysis_result == call_deepseek_api(o).value
       IN  document_analysis' =
               IF employee_id # ""
               THEN Append(document_analysis,
                        AnalysisRow(NextId(document_analysis), file_name, analysis_type,
                                    analysis_result, employee_id, now))
               ELSE document_analysis
    /\ UNCHANGED <<initiatives, now, updates, locals, call, ret>>

(***************************************************************************)
(* The application.                                                        *)
(***************************************************************************)
UpdateIds == 1..(MaxReviewed + 1)

FeedbackInputs == {"looks good", "needs detail"}

\* the steps of a submission, for the sessions, forms and outcomes given
SubmitSteps(Ss, Forms, Outcomes) ==
    \/ \E s \in Ss : Render(s)
    \/ \E s \in Ss, d \in Forms : SubmitInvalid(s, d)
    \/ \E s \in Ss, d \in Forms : SubmitValid(s, d)
    \/ \E s \in Ss, o \in Outcomes : SaveInitiative(s, o)
    \/ \E s \in Ss : AddToRagKnowledge(s)
    \/ \E s \in Ss : Crash(s)

\* one user submits short forms one after the other; the call succeeds or
\* fails
Next == Tick \/ SubmitSteps({"s1"}, {BaseForm, OtherForm, Without({"goals"})},
                            {OkOutcome, FailedOutcome})

Spec == Init /\ [][Next]_vars

\* one user submits the base form with every choice of required fields left
\* empty
NextForms == Tick \/ SubmitSteps({"s1"}, {BaseForm} \cup InvalidForms, {OkOutcome})

SpecForms == Init /\ [][NextForms]_vars

\* two users submit short forms at the same time
NextConc == Tick \/ SubmitSteps(Sessions, {BaseForm, OtherForm, Without({"title"})}, {OkOutcome})

SpecConc == Init /\ [][NextConc]_vars

\* one user submits short and long forms, one after the other
NextLong == Tick \/ SubmitSteps({"s1"}, {BaseForm, LongForm, Without({"goals"})}, {OkOutcome})

SpecLong == Init /\ [][NextLong]_vars

\* one user submits the base form, at most MaxReviewed times with success,
\* and a manager updates statuses
NextReview ==
    \/ Tick
    \/ Render("s1")
    \/ (Len(initiatives) < MaxReviewed /\ SubmitValid("s1", BaseForm))
    \/ SaveInitiative("s1", OkOutcome)
    \/ AddToRagKnowledge("s1")
    \/ \E s \in {"s1"}, id \in UpdateIds, st \in Statuses, fb \in FeedbackInputs :
          UpdateStatus(s, id, st, fb)

SpecReview == Init /\ [][NextReview]_vars

(***************************************************************************)
(* get_rag_context on its own: the table is drawn from the tables of at    *)
(* most MaxEntries rows over a few contents, short and long.               *)
(***************************************************************************)
ContentInputs ==
    { seed_data[1].content, RagContent(BaseForm), RagContent(OtherForm),
      Rep("x", ContextLimit \div 2 - 1), Rep("y", ContextLimit \div 2),
      Rep("z", ContextLimit), Rep("w", ContextLimit + 1) }

RECURSIVE TablesOver(_, _)
TablesOver(S, n) ==
    IF n = 0 THEN {<<>>}
    ELSE LET T == TablesOver(S, n - 1)
         IN  T \cup {Append(t, x) : t \in {u \in T : Len(u) = n - 1}, x \in S}

InitialLocals ==
    /\ api_calls = 0
    /\ updates = 0
    /\ initiative_data = [s \in Sessions |-> NoData]
    /\ rag_context = [s \in Sessions |-> ""]
    /\ initiative_id = [s \in Sessions |-> 0]
    /\ message = [s \in Sessions |-> NoMessage]
    /\ shown = [s \in Sessions |-> <<>>]

InitCtx ==
    /\ initiatives = <<>>
    /\ rag_knowledge \in TablesOver({RagRow(c, IT, 0) : c \in ContentInputs}, MaxEntries)
    /\ document_analysis = <<>>
    /\ now = 0
    /\ pc = [s \in Sessions |-> "new"]
    /\ InitialLocals
    /\ call = NoCall
    /\ ret = NULL

AssembleContext ==
    /\ call' = [fn |-> "get_rag_context"]
    /\ ret' = get_rag_context(rag_knowledge)
    /\ UNCHANGED <<tables, now, api_calls, updates, locals>>

NextCtx == AssembleContext

SpecCtx == InitCtx /\ [][NextCtx]_vars

(***************************************************************************)
(* The listing queries on their own: the tables are drawn from the states  *)
(* that submissions and status updates leave behind, of at most MaxRows    *)
(* initiatives submitted at times that never decrease.                     *)
(***************************************************************************)
ListForms == {BaseForm, OtherForm, [BaseForm EXCEPT !.budget = 60000],
              [BaseForm EXCEPT !.department = HR]}

\* a row as submitted at ts and, unless still pending, updated since
StoredRow(id, d, status, ts) ==
    IF status = DefaultStatus THEN InitiativeRow(id, d, "Good idea", ts)
    ELSE update_initiative_status(<<InitiativeRow(id, d, "Good idea", ts)>>,
                                  id, status, "looks good", ts)[1]

\* a row is as old as the store or of the present second
RowChoices == ListForms \X {"pending", "approved"} \X {0, MaxClock}

InitiativeTables ==
    UNION { { [i \in 1..n |-> StoredRow(i, f[i][1], f[i][2], f[i][3])] :
                f \in {g \in [1..n -> RowChoices] :
                          \A i \in 1..(n - 1) : g[i][3] <= g[i + 1][3]} } :
            n \in 0..MaxRows }

InitList ==
    /\ initiatives \in InitiativeTables
    /\ rag_knowledge =
          add_seed_data(<<>>, 0) \o
          [i \in 1..Len(initiatives) |->
              RagRow(RagContent(initiatives[i]), initiatives[i].department,
                     initiatives[i].created_at)]
    /\ document_analysis = <<>>
    /\ now = MaxClock
    /\ pc = [s \in Sessions |-> "idle"]
    /\ InitialLocals
    /\ call = NoCall
    /\ ret = NULL

NextList ==
    \/ \E e \in {"E1", "E2", "E9"} : ListForEmployee(e)
    \/ \E st \in {ALL, "pending", "approved"}, dp \in {ALL, IT, HR},
          mb \in {1000, 50000, 1000000} : ListFiltered(st, dp, mb)

SpecList == InitList /\ [][NextList]_vars

(***************************************************************************)
(* call_deepseek_api on its own: the outcome of requests.post is drawn     *)
(* from transport failures, error statuses, and 200 responses whose body   *)
(* is not JSON, lacks a field, or is well formed.                          *)
(***************************************************************************)
ErrorCodes == {201, 204, 301, 400, 401, 402, 403, 404, 422, 429, 500, 503}

ApiOutcomes ==
    { [kind |-> "exception", detail |-> t] :
         t \in {"Connection refused", "Read timed out", ""} }
    \cup
    { Http(c, t, FALSE, [x |-> 0]) :
         c \in ErrorCodes, t \in {"", "Unauthorized", "Insufficient Balance", "Good idea"} }
    \cup
    { Http(200, t, FALSE, [x |-> 0]) : t \in {"", "<html>"} }
    \cup
    { Http(200, "{...}", TRUE, j) :
         j \in { [error |-> "x"],
                 [choices |-> <<>>],
                 [choices |-> << [index |-> 0] >>],
                 [choices |-> << [message |-> [role |-> "assistant"]] >>] } }
    \cup
    { Http(200, "{...}", TRUE, OkBody(t)) : t \in {"Good idea", "", "Error-free plan"} }

InitApi ==
    /\ initiatives = <<>>
    /\ rag_knowledge = <<>>
    /\ document_analysis = <<>>
    /\ now = 0
    /\ pc = [s \in Sessions |-> "new"]
    /\ InitialLocals
    /\ call \in {[fn |-> "requests.post", outcome |-> o] : o \in ApiOutcomes}
    /\ ret = NULL

CallApi ==
    /\ call.fn = "requests.post"
    /\ call' = [call EXCEPT !.fn = "call_deepseek_api"]
    /\ ret' = call_deepseek_api(call.outcome)
    /\ UNCHANGED <<tables, now, updates, locals>>
    /\ api_calls' = api_calls + 1

NextApi == CallApi

SpecApi == InitApi /\ [][NextApi]_vars

(***************************************************************************)
(* Submissions whose feedback call fails: the transport raises, or the     *)
(* service answers with an error status.                                   *)
(***************************************************************************)
ServerError == Http(500, "Internal Server Error", FALSE, [x |-> 0])

FailedOutcomes == {FailedOutcome, ServerError}

NextFail == Tick \/ SubmitSteps({"s1"}, {BaseForm, Without({"goals"})},
                                {OkOutcome} \cup FailedOutcomes)

SpecFail == Init /\ [][NextFail]_vars

(***************************************************************************)
(* The review page used by a manager (session s1) and by human resources   *)
(* or finance (session s2) on a store that holds two initiatives.          *)
(***************************************************************************)
ReviewedRows == << StoredRow(1, BaseForm, "pending", 0),
                   StoredRow(2, OtherForm, "approved", MaxClock) >>

InitRoles ==
    /\ initiatives = ReviewedRows
    /\ rag_knowledge =
          add_seed_data(<<>>, 0) \o
          [i \in 1..Len(initiatives) |->
              RagRow(RagContent(initiatives[i]), initiatives[i].department,
                     initiatives[i].created_at)]
    /\ document_analysis = <<>>
    /\ now = MaxClock
    /\ pc = [s \in Sessions |-> "idle"]
    /\ InitialLocals
    /\ call = NoCall
    /\ ret = NULL

NextRoles ==
    \/ \E s \in Sessions : ReviewPage(s)
    \/ \E k \in 1..Len(ReviewedRows), st \in Statuses :
          ManagerUpdate("s1", k, st, "looks good")
    \/ \E k \in 1..Len(ReviewedRows) : HrReview("s2", k, "needs two hires")
    \/ \E k \in 1..Len(ReviewedRows) : FinanceReview("s2", k, "within budget", 900)

SpecRoles == InitRoles /\ [][NextRoles]_vars

(***************************************************************************)
(* All the pages in one session, within one second: submissions, the       *)
(* listing of one's own initiatives, the review page with the manager's    *)
(* update, and document analyses with and without an employee id.          *)
(***************************************************************************)
AnalysisTypes == {"tlxyS almstnd", "tHsyn almHtwY", "astxraj alnqaT alrQysyp",
                  "tHlyl nqaT alqwp walDEf", "tHwyl IlY xTp Eml", "aqtraH tHsynat"}

NextApp ==
    \/ SubmitSteps({"s1"}, {BaseForm, Without({"goals"})}, {OkOutcome})
    \/ ListForEmployee("E1")
    \/ ReviewPage("s1")
    \/ \E k \in 1..MaxCalls : ManagerUpdate("s1", k, "approved", "looks good")
    \/ \E e \in {"", "E1"}, o \in {OkOutcome, FailedOutcome} :
          AnalyzeDocument("s1", e, "plan.pdf", "tlxyS almstnd", o)

SpecApp == Init /\ [][NextApp]_vars

(***************************************************************************)
(* Claims.                                                                 *)
(***************************************************************************)
\* the press of the submit button on form d in session s
Submit(s, d) == SubmitInvalid(s, d) \/ SubmitValid(s, d)

SomeRequiredEmpty(d) == \E k \in RequiredFields : d[k] = ""

Last(rows) == rows[Len(rows)]

Prefix(rows, n) == SubSeq(rows, 1, n)

\* C1: a submission with an empty employee id, employee name, title,
\* description or goals ends in a validation error; no table changes, no
\* call is issued and the run is over.
C1_InvalidSubmissionRejected ==
    [][\A s \in Sessions, d \in {BaseForm} \cup InvalidForms :
          (SomeRequiredEmpty(d) /\ Submit(s, d)) =>
              /\ message'[s].kind = "error"
              /\ tables' = tables
              /\ api_calls' = api_calls
              /\ pc'[s] = "idle"]_vars

\* a refused submission, made when the tables already hold a submission
C1_Witness ==
    /\ message["s1"].kind = "error"
    /\ Len(initiatives) >= 1
    /\ Len(rag_knowledge) > Len(seed_data)

\* C2: a valid submission inserts exactly one initiative row, with status
\* pending and the submitted fields, and then exactly one context entry,
\* whose category is the submitted department and whose content carries the
\* submitted title, department, description, goals, requirements and budget;
\* the steps of the submission change the tables in no other way.
C2_OneRecordOneEntry ==
    [][\A s \in Sessions :
          LET d == initiative_data[s] IN
          /\ (pc[s] = "idle" /\ pc'[s] = "awaiting") => tables' = tables
          /\ (pc[s] = "awaiting" /\ pc'[s] = "saved") =>
                /\ Len(initiatives') = Len(initiatives) + 1
                /\ Prefix(initiatives', Len(initiatives)) = initiatives
                /\ Last(initiatives').status = "pending"
                /\ Last(initiatives').id = initiative_id'[s]
                /\ \A k \in DOMAIN d : Last(initiatives')[k] = d[k]
                /\ rag_knowledge' = rag_knowledge
                /\ document_analysis' = document_analysis
          /\ (pc[s] = "saved" /\ pc'[s] = "idle" /\ message'[s].kind = "success") =>
                /\ Len(rag_knowledge') = Len(rag_knowledge) + 1
                /\ Prefix(rag_knowledge', Len(rag_knowledge)) = rag_knowledge
                /\ Last(rag_knowledge').category = d.department
                /\ \A k \in {"title", "department", "description", "goals", "requirements"} :
                      Contains(Last(rag_knowledge').content, d[k])
                /\ Contains(Last(rag_knowledge').content, FormatFloat(d.budget))
                /\ message'[s].id = initiative_id[s]
                /\ initiatives' = initiatives
                /\ document_analysis' = document_analysis]_vars

\* two submissions have completed, of different departments
C2_Witness ==
    /\ message["s1"].kind = "success"
    /\ Len(initiatives) = 2
    /\ Len(rag_knowledge) = Len(seed_data) + 2
    /\ Last(rag_knowledge).category = HR
    /\ rag_knowledge[Len(seed_data) + 1].category = IT

\* C3: a submission first assembles the context and issues the feedback
\* call, then inserts the initiative, then appends its context entry; the
\* blob it sends is the context of the table as read at the first step, a
\* prefix of the table its own entry is appended to, and holds the content
\* of that entry only if an earlier entry has the same content.
C3_ContextBeforeOwnEntry ==
    [][\A s \in Sessions :
          /\ (pc[s] = "idle" /\ pc'[s] = "awaiting") =>
                /\ rag_context'[s] = get_rag_context(rag_knowledge)
                /\ api_calls' = api_calls + 1
                /\ tables' = tables
          /\ (pc[s] = "awaiting" /\ pc'[s] = "saved") =>
                /\ Len(initiatives') = Len(initiatives) + 1
                /\ rag_knowledge' = rag_knowledge
                /\ rag_context'[s] = rag_context[s]
                /\ api_calls' = api_calls
          /\ (pc[s] = "saved" /\ pc'[s] = "idle" /\ message'[s].kind = "success") =>
                LET own == Last(rag_knowledge') IN
                /\ rag_knowledge' = Append(rag_knowledge, own)
                /\ own.content = RagContent(initiative_data[s])
                /\ initiatives' = initiatives
                /\ api_calls' = api_calls
                /\ \E n \in 0..Len(rag_knowledge) :
                      rag_context[s] = get_rag_context(Prefix(rag_knowledge, n))
                /\ (\A i \in 1..Len(rag_knowledge) : rag_knowledge[i].content # own.content)
                      => ~Contains(rag_context[s], own.content)]_vars

\* a submission about to append its entry, after another session's entry
\* was appended behind the context it had read
C3_Witness ==
    /\ pc["s1"] = "saved"
    /\ Len(rag_knowledge) = Len(seed_data) + 1
    /\ rag_context["s1"] = get_rag_context(Prefix(rag_knowledge, Len(seed_data)))
    /\ rag_context["s1"] # get_rag_context(rag_knowledge)

Ids(rows) == {rows[i].id : i \in 1..Len(rows)}

RowOf(rows, id) == rows[CHOOSE i \in 1..Len(rows) : rows[i].id = id]

\* C6, as amended: updateStatus on an existing id leaves the record with the
\* given status and reviewer feedback, whatever they were before, and with
\* the store's current time as update timestamp, which is never earlier
\* than the timestamp it replaces.
C6_UpdateOverwrites ==
    [][\A s \in Sessions, id \in UpdateIds, st \in Statuses, fb \in FeedbackInputs :
          (id \in Ids(initiatives) /\ UpdateStatus(s, id, st, fb)) =>
              /\ RowOf(initiatives', id).status = st
              /\ RowOf(initiatives', id).admin_feedback = fb
              /\ RowOf(initiatives', id).updated_at = now
              /\ RowOf(initiatives', id).updated_at >= RowOf(initiatives, id).updated_at]_vars

\* a record updated twice: back to pending, with the second feedback, later
\* than it was created
C6_Witness ==
    /\ Len(initiatives) = 1
    /\ updates = 2
    /\ initiatives[1].status = "pending"
    /\ initiatives[1].admin_feedback = "needs detail"
    /\ initiatives[1].updated_at > initiatives[1].created_at

\* C6, as claimed: every updateStatus on an existing id moves the update
\* timestamp forward.
C6_TimestampAdvances ==
    [][\A s \in Sessions, id \in UpdateIds, st \in Statuses, fb \in FeedbackInputs :
          (id \in Ids(initiatives) /\ UpdateStatus(s, id, st, fb)) =>
              RowOf(initiatives', id).updated_at > RowOf(initiatives, id).updated_at]_vars

\* C7, as claimed: updateStatus on an id no record has reports NotFoundError
\* and changes no record.
C7_UnknownIdFails ==
    [][\A s \in Sessions, id \in UpdateIds, st \in Statuses, fb \in FeedbackInputs :
          (id \notin Ids(initiatives) /\ UpdateStatus(s, id, st, fb)) =>
              /\ message'[s].kind = "NotFoundError"
              /\ initiatives' = initiatives]_vars

\* the contents of the rows, each after the earlier ones and a blank line
RECURSIVE Joined(_)
Joined(rows) ==
    IF Len(rows) = 0 THEN ""
    ELSE IF Len(rows) = 1 THEN rows[1].content
    ELSE Joined(Prefix(rows, Len(rows) - 1)) \o "\n\n" \o Last(rows).content

\* C4: context assembly returns "" for an empty table; otherwise the
\* contents joined in insertion order with a blank line between them, whole
\* when that text has at most 10,000 characters and cut to its first 10,000
\* otherwise; never more than 10,000 characters, and the table is unchanged.
C4_ContextAssembly ==
    [][AssembleContext =>
          /\ rag_knowledge' = rag_knowledge
          /\ Len(ret') <= 10000
          /\ (Len(rag_knowledge) = 0) => (ret' = "")
          /\ (Len(rag_knowledge) > 0 /\ Len(Joined(rag_knowledge)) <= 10000)
                => (ret' = Joined(rag_knowledge))
          /\ (Len(rag_knowledge) > 0 /\ Len(Joined(rag_knowledge)) > 10000)
                => (Len(ret') = 10000 /\ ret' = SubSeq(Joined(rag_knowledge), 1, 10000))]_vars

\* a joined text of exactly 10,000 characters, returned whole
C4_Witness ==
    /\ call.fn = "get_rag_context"
    /\ Len(rag_knowledge) = 2
    /\ Len(Joined(rag_knowledge)) = 10000
    /\ ret = Joined(rag_knowledge)

\* a joined text of 10,001 characters, cut to 10,000
C4_WitnessCut ==
    /\ call.fn = "get_rag_context"
    /\ Len(Joined(rag_knowledge)) = 10001
    /\ Len(ret) = 10000

\* the entries appended by submissions, as opposed to the seed rows
SubmittedEntries == (Len(seed_data) + 1)..Len(rag_knowledge)

\* C5, as claimed: the blob assembled for a later submission contains the
\* content of every entry that a completed submission appended.
C5_EntryAlwaysVisible ==
    \A s \in {"s1"} :
        pc[s] = "awaiting" =>
            \A i \in SubmittedEntries : Contains(rag_context[s], rag_knowledge[i].content)

\* C5, as amended: the blob assembled for a later submission contains the
\* content of every entry that a completed submission appended and that ends
\* within the first 10,000 characters of the joined corpus.
C5_EntryVisibleWithinLimit ==
    \A s \in {"s1"} :
        pc[s] = "awaiting" =>
            \A i \in SubmittedEntries :
                Len(Joined(Prefix(rag_knowledge, i))) <= 10000
                    => Contains(rag_context[s], rag_knowledge[i].content)

\* a later submission has assembled its context after an earlier one completed
C5_Witness ==
    /\ pc["s1"] = "awaiting"
    /\ Len(rag_knowledge) = Len(seed_data) + 1
    /\ Len(initiatives) = 1
    /\ Len(Joined(rag_knowledge)) <= 10000
    /\ Contains(rag_context["s1"], rag_knowledge[Len(seed_data) + 1].content)

RetRows == {ret[k] : k \in 1..Len(ret)}

\* C8: listFiltered returns exactly the stored initiatives whose status is
\* the status filter when one is given, whose department is the department
\* filter when one is given, and whose budget is at most maxBudget: each
\* of them once, and no other row.
C8_FilterExact ==
    call.fn = "listFiltered" =>
        LET Matching == {i \in 1..Len(initiatives) :
                            /\ call.status_filter # ALL
                                  => initiatives[i].status = call.status_filter
                            /\ call.department_filter # ALL
                                  => initiatives[i].department = call.department_filter
                            /\ initiatives[i].budget <= call.budget_filter}
        IN  /\ RetRows = {initiatives[i] : i \in Matching}
            /\ Len(ret) = Cardinality(Matching)

\* status approved, any department, at most 50000: one approved row within
\* the budget is returned, an approved row above it is not
C8_Witness ==
    /\ call = [fn |-> "listFiltered", status_filter |-> "approved",
               department_filter |-> ALL, budget_filter |-> 50000]
    /\ Len(initiatives) = 2
    /\ initiatives[1].status = "approved" /\ initiatives[1].budget = 1000
    /\ initiatives[2].status = "approved" /\ initiatives[2].budget = 60000
    /\ ret = <<initiatives[1]>>

\* C9, as claimed: in every result of listForEmployee and listFiltered the
\* record submitted later comes before the record submitted earlier.
C9_NewestFirst ==
    call.fn \in {"listForEmployee", "listFiltered"} =>
        \A i, j \in 1..Len(ret) : i < j => ret[i].id > ret[j].id

\* a 200 response whose body has choices[0].message.content
WellFormed(o) ==
    /\ o.kind = "http"
    /\ o.status_code = 200
    /\ o.json_ok
    /\ "choices" \in DOMAIN o.json
    /\ Len(o.json.choices) >= 1
    /\ "message" \in DOMAIN o.json.choices[1]
    /\ "content" \in DOMAIN o.json.choices[1].message

\* C10: the feedback requester returns and never raises: the content text
\* of a well-formed 200 response, and for every other outcome (transport
\* failure, status other than 200, 200 with a body that is not JSON or lacks
\* a field) a text that begins with the error marker.
C10_NeverRaises ==
    call.fn = "call_deepseek_api" =>
        /\ ret.kind = "returned"
        /\ WellFormed(call.outcome)
              => ret.value = call.outcome.json.choices[1].message.content
        /\ ~WellFormed(call.outcome) => StartsWith(ret.value, "Error")

\* a 200 response whose body has no choices, answered with the marker
C10_Witness ==
    /\ call.fn = "call_deepseek_api"
    /\ call.outcome.kind = "http"
    /\ call.outcome.status_code = 200
    /\ call.outcome.json_ok
    /\ "choices" \notin DOMAIN call.outcome.json
    /\ ret = Returned("Error calling API: 'choices'")

\* the text call_deepseek_api returns in place of the feedback (lines 92, 94)
Marker(o) == IF o = FailedOutcome THEN "Error calling API: Connection refused"
             ELSE "Error: 500 - Internal Server Error"

\* C11: when the feedback call of a valid submission fails, the submission
\* goes on and the call is not repeated: the one call of the submission is
\* the one issued at its start, the record is inserted with status pending
\* and the error text as its generated feedback, the context entry is
\* appended after it, and the id of the new record is reported.
C11_FailedCallStillSubmits ==
    [][\A s \in Sessions :
          /\ pc'[s] # pc[s] =>
                api_calls' = api_calls + (IF pc'[s] = "awaiting" THEN 1 ELSE 0)
          /\ \A o \in FailedOutcomes :
                SaveInitiative(s, o) =>
                    /\ pc'[s] = "saved"
                    /\ Len(initiatives') = Len(initiatives) + 1
                    /\ Prefix(initiatives', Len(initiatives)) = initiatives
                    /\ Last(initiatives').status = "pending"
                    /\ Last(initiatives').ai_feedback = Marker(o)
                    /\ Last(initiatives').title = initiative_data[s].title
                    /\ initiative_id'[s] = Last(initiatives').id
          /\ (/\ pc[s] = "saved" /\ pc'[s] = "idle" /\ message'[s].kind = "success"
              /\ StartsWith(RowOf(initiatives, initiative_id[s]).ai_feedback, "Error")) =>
                    /\ Len(rag_knowledge') = Len(rag_knowledge) + 1
                    /\ Prefix(rag_knowledge', Len(rag_knowledge)) = rag_knowledge
                    /\ Last(rag_knowledge').content = RagContent(initiative_data[s])
                    /\ message'[s].id = initiative_id[s]
                    /\ initiatives' = initiatives]_vars

\* a submission completed after one call, which the service answered with
\* status 500
C11_Witness ==
    /\ api_calls = 1
    /\ Len(initiatives) = 1
    /\ initiatives[1].status = "pending"
    /\ initiatives[1].ai_feedback = "Error: 500 - Internal Server Error"
    /\ Len(rag_knowledge) = Len(seed_data) + 1
    /\ message["s1"] = [kind |-> "success", id |-> 1]

\* C12: no transition graph is enforced.  For every pair of statuses
\* (from, to), the five statuses each way, equal ones and implemented back
\* to pending included, the manager's update of a record whose status is
\* from with the new status to is carried out, reports success and leaves
\* the record with status to.
C12_AnyStatusFollowsAny ==
    [][\A s \in Sessions, k \in 1..Len(ReviewedRows), from \in Statuses, to \in Statuses :
          (/\ k \in 1..Len(shown[s])
           /\ RowOf(initiatives, shown[s][k].id).status = from
           /\ ManagerUpdate(s, k, to, "looks good")) =>
              /\ RowOf(initiatives', shown[s][k].id).status = to
              /\ message'[s].kind = "updated"]_vars

\* the manager has set record 1 to implemented, which the other session
\* then read, and has set it back to pending
C12_Witness ==
    /\ updates = 2
    /\ \E k \in 1..Len(shown["s2"]) :
          shown["s2"][k].id = 1 /\ shown["s2"][k].status = "implemented"
    /\ RowOf(initiatives, 1).status = "pending"
    /\ message["s1"].kind = "updated"

\* C13: the context corpus is append-only.  Whatever the step (a
\* submission, a status update, a listing, a document analysis, the
\* seeding), the entries before it are the first entries after it, unchanged
\* and in the same order; so the corpus of an earlier state is a prefix of
\* the corpus of every later state.
C13_CorpusAppendOnly ==
    [][/\ Len(rag_knowledge') >= Len(rag_knowledge)
       /\ Prefix(rag_knowledge', Len(rag_knowledge)) = rag_knowledge]_vars

\* the corpus was seeded and a submission was appended to it; a status
\* update, a stored document analysis and a listing have taken place
C13_Witness ==
    /\ Len(rag_knowledge) = Len(seed_data) + 1
    /\ updates >= 1
    /\ Len(document_analysis) = 1
    /\ call.fn = "listForEmployee"
    /\ Len(ret) = 1

\* the columns update_initiative_status does not name
FrozenFields == {"id", "employee_id", "employee_name", "department", "title",
                 "description", "goals", "requirements", "budget", "ai_feedback",
                 "created_at"}

\* C14: initiative records are never deleted and are changed only by
\* updateStatus.  No step removes or reorders a record or changes a column
\* other than status, reviewer feedback and update timestamp; a step that
\* changes a stored record is a call of update_initiative_status; and the
\* update of one record leaves every other record, the number of records
\* and the context corpus as they were.
C14_UpdateFrame ==
    [][/\ Len(initiatives') >= Len(initiatives)
       /\ \A i \in 1..Len(initiatives), f \in FrozenFields :
             initiatives'[i][f] = initiatives[i][f]
       /\ Prefix(initiatives', Len(initiatives)) # initiatives => updates' = updates + 1
       /\ \A s \in Sessions, k \in 1..MaxCalls :
             ManagerUpdate(s, k, "approved", "looks good") =>
                 /\ Len(initiatives') = Len(initiatives)
                 /\ \A i \in 1..Len(initiatives) :
                       initiatives[i].id # shown[s][k].id => initiatives'[i] = initiatives[i]
                 /\ RowOf(initiatives', shown[s][k].id).status = "approved"
                 /\ rag_knowledge' = rag_knowledge]_vars

\* of two stored records the second was updated: the first is as it was
\* submitted, and both context entries are in the corpus
C14_Witness ==
    /\ Len(initiatives) = 2
    /\ updates = 1
    /\ initiatives[1].status = "pending" /\ initiatives[1].admin_feedback = NULL
    /\ initiatives[2].status = "approved" /\ initiatives[2].admin_feedback = "looks good"
    /\ initiatives[2].title = BaseForm.title /\ initiatives[2].ai_feedback = "Good idea"
    /\ Len(rag_knowledge) = Len(seed_data) + 2

\* the records without a context entry: the records, less the entries of
\* submissions, less the records whose submission is about to append one
Missing ==
    Len(initiatives) - Cardinality(SubmittedEntries)
        - Cardinality({s \in Sessions : pc[s] = "saved"})

\* C15: the insert of the record and the append of the context entry are
\* two commits.  A submission that stops after the first and before the
\* second leaves both tables as they are, the record without an entry; and
\* no later step lowers the number of records without an entry.
C15_CrashLeavesOrphan ==
    [][/\ Missing >= 0
       /\ Missing' >= Missing
       /\ \A s \in Sessions :
             (pc[s] = "saved" /\ pc'[s] = "idle" /\ message'[s].kind # "success") =>
                 /\ tables' = tables
                 /\ Missing' = Missing + 1]_vars

\* the first submission stopped between its two commits, the second one
\* completed: two records, and the one entry is the entry of the second
C15_Witness ==
    /\ pc["s1"] = "idle"
    /\ message["s1"] = [kind |-> "success", id |-> 2]
    /\ Len(initiatives) = 2
    /\ initiatives[1].title = BaseForm.title
    /\ initiatives[2].title = OtherForm.title
    /\ Len(rag_knowledge) = Len(seed_data) + 1
    /\ Last(rag_knowledge).content = RagContent(OtherForm)
    /\ Missing = 1

\* C16: a document analysis appends exactly one document-analysis record,
\* with the file name, the analysis type, the text the call returned and
\* the employee id, when a non-empty employee id was typed, and none when
\* the id was left empty; either way the initiatives and the context corpus
\* are unchanged; and no step changes or removes a stored analysis record.
C16_AnalysisRecord ==
    [][/\ Len(document_analysis') >= Len(document_analysis)
       /\ Prefix(document_analysis', Len(document_analysis)) = document_analysis
       /\ \A s \in Sessions, e \in {"", "E1"}, o \in {OkOutcome, FailedOutcome} :
             AnalyzeDocument(s, e, "plan.pdf", "tlxyS almstnd", o) =>
                 /\ initiatives' = initiatives
                 /\ rag_knowledge' = rag_knowledge
                 /\ e = "" => document_analysis' = document_analysis
                 /\ e # "" =>
                       /\ Len(document_analysis') = Len(document_analysis) + 1
                       /\ Last(document_analysis').file_name = "plan.pdf"
                       /\ Last(document_analysis').analysis_type = "tlxyS almstnd"
                       /\ Last(document_analysis').analysis_result =
                              (IF o = OkOutcome THEN "Good idea" ELSE Marker(o))
                       /\ Last(document_analysis').employee_id = e]_vars

\* two analyses and no submission: the one with an employee id left a
\* record, the one without did not
C16_Witness ==
    /\ api_calls = 2
    /\ pc["s1"] = "idle"
    /\ Len(initiatives) = 0
    /\ Len(rag_knowledge) = Len(seed_data)
    /\ Len(document_analysis) = 1
    /\ document_analysis[1].employee_id = "E1"
    /\ document_analysis[1].analysis_result = "Good idea"

\* C17, as claimed: a human-resources or finance action on a record writes
\* the reviewer feedback and leaves the stored status of the record as it
\* was just before the action, whatever happened since the page of the
\* reviewer read the record.
C17_ReviewKeepsStatus ==
    [][\A s \in Sessions, k \in 1..Len(ReviewedRows) :
          (/\ k \in 1..Len(shown[s])
           /\ \/ HrReview(s, k, "needs two hires")
              \/ FinanceReview(s, k, "within budget", 900)) =>
              /\ RowOf(initiatives', shown[s][k].id).admin_feedback
                    \in {"needs two hires", FinanceFeedback("within budget", 900)}
              /\ RowOf(initiatives', shown[s][k].id).status
                    = RowOf(initiatives, shown[s][k].id).status]_vars

====
